---- MODULE Spec2Model ----
(***************************************************************************)
(* A model of escrypto's arbitrary-precision arithmetic on big-endian byte *)
(* buffers (src/lib/BigNum.ts) and of the hex helpers of                   *)
(* src/lib/bufferUtil.js.                                                  *)
(*                                                                         *)
(* An ArrayBuffer is a sequence of bytes; JavaScript index i is sequence   *)
(* position i + 1.  A call either returns a value or throws: every         *)
(* operator that models a function that can throw returns a record with an *)
(* `error` field ("none" when the call returned).                          *)
(*                                                                         *)
(* TLC integers are 32 bits wide, so the value of a buffer is never       *)
(* computed as one integer: values are compared through their             *)
(* canonical digits (Canon, ValueLess) and through their residues modulo   *)
(* pairwise coprime moduli (Moduli, Residue).                              *)
(***************************************************************************)
EXTENDS Integers, Sequences, FiniteSets, TLC

VARIABLES
    bufferA,    \* the caller's first buffer (the target of an in-place call)
    bufferB,    \* the caller's second buffer
    input,      \* the argument of a constructor call: a string or a number
    op,         \* the last call made
    ret,        \* what the last call returned
    err,        \* what the last call threw ("none": it returned)
    probe       \* locals of the last call that the claims speak about

vars == <<bufferA, bufferB, input, op, ret, err, probe>>

(***************************************************************************)
(* Bounds of the model.                                                    *)
(***************************************************************************)
\* Longest buffer an operand is drawn from.
MaxLen == 3

\* The byte values operands are built from: zero, the smallest and the
\* largest non-zero byte (carries, borrows and the widest lane products).
Bytes == {0, 1, 255}

Buffers == UNION {[1..n -> Bytes] : n \in 0..MaxLen}

\* The operands of the repository's own test and commented checks:
\* 00000101ffff and ff0fff.
ScenarioBuffers == {<<0, 0, 1, 1, 255, 255>>, <<255, 15, 255>>}

\* The operand e of the commented check of mul(e, e): fourteen bytes ff.
ScenarioWideBuffer == [i \in 1..14 |-> 255]

\* The byte values the bit utilities are given: the bytes with only the
\* lowest or only the highest bit set are added.
BitBytes == {0, 1, 128, 255}

\* Buffers of the bit utilities: every buffer over BitBytes up to MaxLen
\* bytes, and every buffer of one byte.
BitBuffers ==
    UNION {[1..n -> BitBytes] : n \in 0..MaxLen} \cup {<<byte>> : byte \in 0..255}

\* Largest shift count a caller passes; leftShiftI accepts up to 24.
MaxShift == 25

\* Longest string of the sample alphabet a constructor is given.
MaxTextLen == 3

\* Characters strings are built from: hex digits of both cases, the sign,
\* the x of a 0x prefix, and g for any character that is none of these.
Alphabet == {"0", "1", "a", "F", "-", "x", "g"}

\* The hex texts of the repository's commented checks.
ScenarioTexts ==
    { <<"0", "x", "1", "2", "3", "f", "f", "8">>,
      <<"1", "2", "3", "f", "f", "8">>,
      <<"0", "1", "2", "3", "4", "5", "6", "7", "8", "9", "a", "b", "c", "d">> }

\* Longest buffer of a caller that makes several calls in a row, and the
\* number of calls it makes.
MaxCallLen == 2

MaxCalls == 2

\* The shift counts such a caller passes: none, one bit, one byte, the
\* largest count accepted and the first one refused.
CallShifts == {0, 1, 8, 24, 25}

\* Longest text, in UTF-16 code units, that is encoded as UTF-8.
MaxUtfLen == 3

\* The code units texts are built from: NUL, '%', 'A', the first and last
\* code points of two and of three UTF-8 octets, the two syllables of the
\* repository's check, and a high and a low surrogate (a pair of them is a
\* code point of four octets, one alone is no valid text).
UtfUnits == {0, 37, 65, 128, 2047, 2048, 54620, 44544, 65535, 55357, 56832}

\* The texts of the repository's commented checks: the two syllables, and
\* "\x00TEST".
ScenarioUtfTexts == {<<54620, 44544>>, <<0, 84, 69, 83, 84>>}

(***************************************************************************)
(* Reference arithmetic, independent of the code.                          *)
(***************************************************************************)
Abs(x) == IF x < 0 THEN -x ELSE x

Max(x, y) == IF x > y THEN x ELSE y

Min(x, y) == IF x < y THEN x ELSE y

\* The buffer without its leading zero bytes: the digits of its value in
\* base 256.  Two buffers have the same value iff their Canon is the same.
RECURSIVE Canon(_)
Canon(buf) ==
    IF buf = <<>> THEN <<>>
    ELSE IF buf[1] = 0 THEN Canon(Tail(buf)) ELSE buf

\* value(x) < value(y), on the base-256 digits.
ValueLess(x, y) ==
    LET cx == Canon(x)
        cy == Canon(y)
    IN  \/ Len(cx) < Len(cy)
        \/ /\ Len(cx) = Len(cy)
           /\ \E i \in 1..Len(cx) :
                /\ cx[i] < cy[i]
                /\ \A j \in 1..(i - 1) : cx[j] = cy[j]

ValueEq(x, y) == Canon(x) = Canon(y)

IsZero(buf) == Canon(buf) = <<>>

\* Pairwise coprime moduli (primes below 2^15, so that a product of two
\* residues fits TLC's integers).  Their product exceeds 2^104: two
\* naturals below 256^13 are equal iff all their residues are.
Moduli == {32749, 32719, 32717, 32713, 32707, 32693, 32687}

\* value(buf) modulo m, by Horner's rule.
RECURSIVE ResidueFrom(_, _, _)
ResidueFrom(buf, m, acc) ==
    IF buf = <<>> THEN acc
    ELSE ResidueFrom(Tail(buf), m, (acc * 256 + buf[1]) % m)

Residue(buf, m) == ResidueFrom(buf, m, 0)

\* value(r) = value(x) + value(y)
IsSum(r, x, y) ==
    \A m \in Moduli : Residue(r, m) = (Residue(x, m) + Residue(y, m)) % m

\* value(r) = value(x) * value(y)
IsProduct(r, x, y) ==
    \A m \in Moduli : Residue(r, m) = (Residue(x, m) * Residue(y, m)) % m

\* value(r) = value(x) * 2^n, for n < 31
IsShifted(r, x, n) ==
    \A m \in Moduli : Residue(r, m) = (Residue(x, m) * ((2 ^ n) % m)) % m

\* value(q) * value(d) + value(r) = value(n)
IsQuotRem(q, r, n, d) ==
    \A m \in Moduli :
        Residue(n, m) = (Residue(q, m) * Residue(d, m) + Residue(r, m)) % m

(***************************************************************************)
(* JavaScript's bit operators on the small non-negative integers the code  *)
(* applies them to.                                                        *)
(***************************************************************************)
RECURSIVE BitAnd(_, _)
BitAnd(x, y) ==
    IF x = 0 \/ y = 0 THEN 0
    ELSE (x % 2) * (y % 2) + 2 * BitAnd(x \div 2, y \div 2)

RECURSIVE BitOr(_, _)
BitOr(x, y) ==
    IF x = 0 THEN y
    ELSE IF y = 0 THEN x
    ELSE Max(x % 2, y % 2) + 2 * BitOr(x \div 2, y \div 2)

\* Math.floor(Math.log2(byte)) for a byte 1..255, with Math.log2 exact at
\* the powers of two (as in the engines the repository runs on)
RECURSIVE FloorLog2(_)
FloorLog2(byte) == IF byte < 2 THEN 0 ELSE 1 + FloorLog2(byte \div 2)

\* Math.ceil(x / 8) for x >= 0
CeilDiv8(x) == (x + 7) \div 8

Zeros(n) == [i \in 1..n |-> 0]

(***************************************************************************)
(* src/lib/BigNum.ts: bit utilities.                                       *)
(***************************************************************************)
\* padToNBytes with the zero bytes put behind the buffer (tmp.set at 0).
padToNBytesAtEnd(buffer, n) ==
    LET underLength == (n - (Len(buffer) % n)) % n
    IN  IF underLength # 0 THEN buffer \o Zeros(underLength) ELSE buffer

\* padToNBytes: zero bytes are put in front until the length is a multiple
\* of n.
padToNBytes(buffer, n) ==
    LET underLength == (n - (Len(buffer) % n)) % n
    IN  IF underLength # 0 THEN Zeros(underLength) \o buffer ELSE buffer

\* bitLength that reads the first byte only, zero or not.
bitLengthOfFirstByte(buffer) ==
    IF buffer = <<>> THEN 0
    ELSE 8 * (Len(buffer) - 1) + FloorLog2(buffer[1]) + 1

\* bitLength without the + 1 that turns the order of the top bit of the
\* byte, counted from 0, into a length.
bitLengthFromZero(buffer) ==
    LET RECURSIVE some(_)
        some(index) ==
            IF index >= Len(buffer) THEN 0
            ELSE IF buffer[index + 1] # 0
                 THEN 8 * (Len(buffer) - index - 1)
                      + FloorLog2(buffer[index + 1])
                 ELSE some(index + 1)
    IN  some(0)

\* bitLength: Uint8Array.some stops at the first non-zero byte.
bitLength(buffer) ==
    LET RECURSIVE some(_)
        some(index) ==
            IF index >= Len(buffer) THEN 0
            ELSE IF buffer[index + 1] # 0
                 THEN 8 * (Len(buffer) - index - 1)
                      + FloorLog2(buffer[index + 1]) + 1
                 ELSE some(index + 1)
    IN  some(0)

\* get bitLength of a BigNum: the same walk over this.buffer.
BigNum_bitLength(this) ==
    LET RECURSIVE some(_)
        some(index) ==
            IF index >= Len(this.buffer) THEN 0
            ELSE IF this.buffer[index + 1] # 0
                 THEN 8 * (Len(this.buffer) - index - 1)
                      + FloorLog2(this.buffer[index + 1]) + 1
                 ELSE some(index + 1)
    IN  some(0)

\* trim: buffer.slice(zeroBytes)
trim(buffer) ==
    LET zeroBytes == Len(buffer) - CeilDiv8(bitLength(buffer))
    IN  SubSeq(buffer, zeroBytes + 1, Len(buffer))

\* array[i] << n as JavaScript computes it, for 0 <= n < 32: the 32-bit
\* two's complement number whose bits are the low 32 bits of byte * 2^n
\* (undefined << n is 0).  Below n = 24 no bit of a byte reaches bit 31.
ShiftLeft32(byte, n) ==
    IF n < 24 THEN byte * 2 ^ n
    ELSE LET low == byte % 2 ^ (32 - n)
         IN  IF low >= 2 ^ (31 - n)
             THEN (low - 2 ^ (32 - n)) * 2 ^ n
             ELSE low * 2 ^ n

\* carry >>> 8: the unsigned 32-bit reading of carry, shifted right.
UnsignedShiftRight8(carry) ==
    IF carry < 0 THEN (carry \div 256) + 2 ^ 24 ELSE carry \div 256

\* leftShiftI: the loop starts one past the last byte (array[byteLength] is
\* undefined: it shifts to 0 and the store is dropped).
leftShiftI(buffer, n) ==
    LET RECURSIVE loop(_, _, _)
        loop(i, carry, array) ==
            IF i < 0 THEN [error |-> "none", buffer |-> array, carry |-> carry]
            ELSE IF i >= Len(array)
                 THEN loop(i - 1, UnsignedShiftRight8(carry + 0), array)
                 ELSE LET c == carry + ShiftLeft32(array[i + 1], n)
                      IN  loop(i - 1, UnsignedShiftRight8(c),
                               [array EXCEPT ![i + 1] = c % 256])
    IN  IF n > 24
        THEN [error |-> "Error", buffer |-> buffer, carry |-> 0]
        ELSE loop(Len(buffer), 0, buffer)

\* leftShift that returns the shifted clone and drops the carry.
leftShiftDropsCarry(buffer, n) ==
    LET shifted == leftShiftI(buffer, n)
    IN  IF shifted.error # "none"
        THEN [error |-> shifted.error, buffer |-> <<>>]
        ELSE [error |-> "none", buffer |-> shifted.buffer]

\* leftShift: leftShiftI on a clone; a non-zero carry is put in front, in
\* ((Math.log2(carry) / 8) | 0) + 1 bytes.
leftShift(buffer, n) ==
    LET shifted == leftShiftI(buffer, n)
        bufferClone == shifted.buffer
        carry == shifted.carry
        overflowBytes == (FloorLog2(carry) \div 8) + 1
        RECURSIVE loop(_, _, _)
        loop(i, c, tmp) ==
            IF i < 0 THEN tmp
            ELSE loop(i - 1, c \div 256, [tmp EXCEPT ![i + 1] = c % 256])
    IN  IF shifted.error # "none"
        THEN [error |-> shifted.error, buffer |-> <<>>]
        ELSE IF carry # 0
        THEN [error |-> "none",
              buffer |-> loop(overflowBytes - 1, carry,
                              Zeros(overflowBytes) \o bufferClone)]
        ELSE [error |-> "none", buffer |-> bufferClone]

(***************************************************************************)
(* src/lib/BigNum.ts: the comparator.                                      *)
(***************************************************************************)
\* spaceShip that lets the longer buffer win without looking at the bytes
\* the shorter one lacks.
spaceShipLongerWins(bufferA_, bufferB_) ==
    LET lengthDifference == Abs(Len(bufferA_) - Len(bufferB_))
        LongArrayIsBufferA == Len(bufferA_) > Len(bufferB_)
        shortArray == IF LongArrayIsBufferA THEN bufferB_ ELSE bufferA_
        longArray == IF LongArrayIsBufferA THEN bufferA_ ELSE bufferB_
        RECURSIVE loop(_)
        loop(i) ==
            IF i >= Len(longArray) THEN 0
            ELSE IF i < lengthDifference
                 THEN (IF LongArrayIsBufferA THEN 1 ELSE -1)
                 ELSE IF longArray[i + 1] # shortArray[i - lengthDifference + 1]
                      THEN (IF (longArray[i + 1] > shortArray[i - lengthDifference + 1])
                                = LongArrayIsBufferA
                            THEN 1 ELSE -1)
                      ELSE loop(i + 1)
    IN  loop(0)

spaceShip(bufferA_, bufferB_) ==
    LET lengthDifference == Abs(Len(bufferA_) - Len(bufferB_))
        LongArrayIsBufferA == Len(bufferA_) > Len(bufferB_)
        shortArray == IF LongArrayIsBufferA THEN bufferB_ ELSE bufferA_
        longArray == IF LongArrayIsBufferA THEN bufferA_ ELSE bufferB_
        RECURSIVE loop(_)
        loop(i) ==
            IF i >= Len(longArray) THEN 0
            ELSE IF i < lengthDifference
                 THEN IF longArray[i + 1] # 0
                      THEN (IF LongArrayIsBufferA THEN 1 ELSE -1)
                      ELSE loop(i + 1)
                 ELSE IF longArray[i + 1] # shortArray[i - lengthDifference + 1]
                      THEN (IF (longArray[i + 1] > shortArray[i - lengthDifference + 1])
                                = LongArrayIsBufferA
                            THEN 1 ELSE -1)
                      ELSE loop(i + 1)
    IN  loop(0)

eq(bufferA_, bufferB_) == spaceShip(bufferA_, bufferB_) = 0

gt(bufferA_, bufferB_) == spaceShip(bufferA_, bufferB_) > 0

lt(bufferA_, bufferB_) == spaceShip(bufferA_, bufferB_) < 0

\* gte that is gt.
gteStrict(bufferA_, bufferB_) == spaceShip(bufferA_, bufferB_) > 0

gte(bufferA_, bufferB_) == spaceShip(bufferA_, bufferB_) >= 0

lte(bufferA_, bufferB_) == spaceShip(bufferA_, bufferB_) <= 0

\* BigNum.cmp: the same walk over the two values' magnitude buffers; the
\* sign flags are not read.
cmp(this, other) ==
    LET lengthDifference == Abs(Len(this.buffer) - Len(other.buffer))
        LongArrayIsThis == Len(this.buffer) > Len(other.buffer)
        shortArray == IF LongArrayIsThis THEN other.buffer ELSE this.buffer
        longArray == IF LongArrayIsThis THEN this.buffer ELSE other.buffer
        RECURSIVE loop(_)
        loop(i) ==
            IF i >= Len(longArray) THEN 0
            ELSE IF i < lengthDifference
                 THEN IF longArray[i + 1] # 0
                      THEN (IF LongArrayIsThis THEN 1 ELSE -1)
                      ELSE loop(i + 1)
                 ELSE IF longArray[i + 1] # shortArray[i - lengthDifference + 1]
                      THEN (IF (longArray[i + 1] > shortArray[i - lengthDifference + 1])
                                = LongArrayIsThis
                            THEN 1 ELSE -1)
                      ELSE loop(i + 1)
    IN  loop(0)

(***************************************************************************)
(* src/lib/BigNum.ts: the additive engine.                                 *)
(***************************************************************************)
\* add that returns the result array whatever carry is left over.
addDropsOverflow(bufferA_, bufferB_) ==
    LET lengthDifference == Abs(Len(bufferA_) - Len(bufferB_))
        shortArray == IF Len(bufferA_) > Len(bufferB_) THEN bufferB_ ELSE bufferA_
        longArray == IF Len(bufferA_) > Len(bufferB_) THEN bufferA_ ELSE bufferB_
        RECURSIVE reduceRight(_, _, _)
        reduceRight(index, carry, resultArray) ==
            IF index < 0 THEN resultArray
            ELSE LET sum == longArray[index + 1] + carry
                            + (IF index >= lengthDifference
                               THEN shortArray[index - lengthDifference + 1]
                               ELSE 0)
                 IN  reduceRight(index - 1,
                                 IF sum > 255 THEN 1 ELSE 0,
                                 [resultArray EXCEPT ![index + 1] = sum % 256])
    IN  reduceRight(Len(longArray) - 1, 0,
                    Zeros(Max(Len(bufferA_), Len(bufferB_))))

\* add that puts the overflow byte in front whether it is 1 or 0.
addAlwaysGrows(bufferA_, bufferB_) ==
    LET lengthDifference == Abs(Len(bufferA_) - Len(bufferB_))
        shortArray == IF Len(bufferA_) > Len(bufferB_) THEN bufferB_ ELSE bufferA_
        longArray == IF Len(bufferA_) > Len(bufferB_) THEN bufferA_ ELSE bufferB_
        RECURSIVE reduceRight(_, _, _)
        reduceRight(index, carry, resultArray) ==
            IF index < 0 THEN [overflow |-> carry, resultArray |-> resultArray]
            ELSE LET sum == longArray[index + 1] + carry
                            + (IF index >= lengthDifference
                               THEN shortArray[index - lengthDifference + 1]
                               ELSE 0)
                 IN  reduceRight(index - 1,
                                 IF sum > 255 THEN 1 ELSE 0,
                                 [resultArray EXCEPT ![index + 1] = sum % 256])
        r == reduceRight(Len(longArray) - 1, 0,
                         Zeros(Max(Len(bufferA_), Len(bufferB_))))
    IN  <<r.overflow>> \o r.resultArray

add(bufferA_, bufferB_) ==
    LET lengthDifference == Abs(Len(bufferA_) - Len(bufferB_))
        shortArray == IF Len(bufferA_) > Len(bufferB_) THEN bufferB_ ELSE bufferA_
        longArray == IF Len(bufferA_) > Len(bufferB_) THEN bufferA_ ELSE bufferB_
        RECURSIVE reduceRight(_, _, _)
        reduceRight(index, carry, resultArray) ==
            IF index < 0 THEN [overflow |-> carry, resultArray |-> resultArray]
            ELSE LET sum == longArray[index + 1] + carry
                            + (IF index >= lengthDifference
                               THEN shortArray[index - lengthDifference + 1]
                               ELSE 0)
                 IN  reduceRight(index - 1,
                                 IF sum > 255 THEN 1 ELSE 0,
                                 [resultArray EXCEPT ![index + 1] = sum % 256])
        r == reduceRight(Len(longArray) - 1, 0,
                         Zeros(Max(Len(bufferA_), Len(bufferB_))))
    IN  IF r.overflow = 0
        THEN r.resultArray
        ELSE <<r.overflow>> \o r.resultArray

\* subI that takes a shorter bufferA for a smaller value, and looks no
\* further.
subIComparesLengths(bufferA_, bufferB_) ==
    LET compare == spaceShip(bufferA_, bufferB_)
        arrayB == bufferB_
        lengthDifference == Abs(Len(bufferA_) - Len(bufferB_))
        RECURSIVE loop(_, _, _)
        loop(index, carry, arrayA) ==
            IF index < 0 THEN arrayA
            ELSE LET readsB == index >= lengthDifference
                     isNaN == \/ index >= Len(arrayA)
                              \/ readsB /\ index - lengthDifference >= Len(arrayB)
                     c == IF isNaN THEN 0
                          ELSE carry + arrayA[index + 1]
                               - (IF readsB
                                  THEN arrayB[index - lengthDifference + 1]
                                  ELSE 0)
                 IN  loop(index - 1,
                          IF ~isNaN /\ c < 0 THEN -1 ELSE 0,
                          IF index >= Len(arrayA)
                          THEN arrayA
                          ELSE [arrayA EXCEPT ![index + 1] = c % 256])
    IN  IF Len(bufferA_) < Len(bufferB_)
        THEN [error |-> "OverflowError", buffer |-> bufferA_]
        ELSE IF compare = 0
        THEN [error |-> "none", buffer |-> Zeros(Len(bufferA_))]
        ELSE [error |-> "none", buffer |-> loop(Len(bufferA_), 0, bufferA_)]

\* subI that subtracts first and looks at the comparison afterwards.
subIValidatesLast(bufferA_, bufferB_) ==
    LET compare == spaceShip(bufferA_, bufferB_)
        arrayB == bufferB_
        lengthDifference == Abs(Len(bufferA_) - Len(bufferB_))
        RECURSIVE loop(_, _, _)
        loop(index, carry, arrayA) ==
            IF index < 0 THEN arrayA
            ELSE LET readsB == index >= lengthDifference
                     isNaN == \/ index >= Len(arrayA)
                              \/ readsB /\ index - lengthDifference >= Len(arrayB)
                     c == IF isNaN THEN 0
                          ELSE carry + arrayA[index + 1]
                               - (IF readsB
                                  THEN arrayB[index - lengthDifference + 1]
                                  ELSE 0)
                 IN  loop(index - 1,
                          IF ~isNaN /\ c < 0 THEN -1 ELSE 0,
                          IF index >= Len(arrayA)
                          THEN arrayA
                          ELSE [arrayA EXCEPT ![index + 1] = c % 256])
    IN  IF compare < 0
        THEN [error |-> "OverflowError",
              buffer |-> loop(Len(bufferA_), 0, bufferA_)]
        ELSE IF compare = 0
        THEN [error |-> "none", buffer |-> Zeros(Len(bufferA_))]
        ELSE [error |-> "none", buffer |-> loop(Len(bufferA_), 0, bufferA_)]

\* subI: the loop starts at index = byteLength, one past the last byte.
\* There arrayA[index] is undefined, so carry becomes NaN: NaN & 0xff is 0
\* and is stored out of bounds (dropped), and NaN < 0 is false, so the
\* carry leaves that step as 0.  The same holds wherever a read misses.
subI(bufferA_, bufferB_) ==
    LET compare == spaceShip(bufferA_, bufferB_)
        arrayB == bufferB_
        lengthDifference == Abs(Len(bufferA_) - Len(bufferB_))
        RECURSIVE loop(_, _, _)
        loop(index, carry, arrayA) ==
            IF index < 0 THEN arrayA
            ELSE LET readsB == index >= lengthDifference
                     isNaN == \/ index >= Len(arrayA)
                              \/ readsB /\ index - lengthDifference >= Len(arrayB)
                     c == IF isNaN THEN 0
                          ELSE carry + arrayA[index + 1]
                               - (IF readsB
                                  THEN arrayB[index - lengthDifference + 1]
                                  ELSE 0)
                 IN  loop(index - 1,
                          IF ~isNaN /\ c < 0 THEN -1 ELSE 0,
                          IF index >= Len(arrayA)
                          THEN arrayA
                          ELSE [arrayA EXCEPT ![index + 1] = c % 256])
    IN  IF compare < 0
        THEN [error |-> "OverflowError", buffer |-> bufferA_]
        ELSE IF compare = 0
        THEN [error |-> "none", buffer |-> Zeros(Len(bufferA_))]
        ELSE [error |-> "none", buffer |-> loop(Len(bufferA_), 0, bufferA_)]

\* sub: subI on a clone of bufferA; what subI throws passes through.
sub(bufferA_, bufferB_) ==
    LET bufferClone == bufferA_
        r == subI(bufferClone, bufferB_)
    IN  [error |-> r.error, buffer |-> r.buffer]

(***************************************************************************)
(* src/lib/BigNum.ts: the division engine.                                 *)
(***************************************************************************)
divmod(numerator, denominator) ==
    LET numeratorArray == numerator
        RECURSIVE loop(_, _, _)
        loop(index, quotient, remainder) ==
            IF ~(index > 0)
            THEN [error |-> "none", div |-> quotient, mod |-> remainder]
            ELSE LET byteIndex == Len(numerator) - CeilDiv8(index)
                     mask == 2 ^ ((index - 1) % 8)
                     shifted == leftShiftI(remainder, 1)
                     bit == IF BitAnd(numeratorArray[byteIndex + 1], mask) # 0
                            THEN 1 ELSE 0
                     injected == [shifted.buffer EXCEPT
                                    ![Len(shifted.buffer)] = BitOr(@, bit)]
                 IN  IF gte(injected, denominator)
                     THEN LET s == subI(injected, denominator)
                          IN  IF s.error # "none"
                              THEN [error |-> s.error, div |-> quotient,
                                    mod |-> injected]
                              ELSE loop(index - 1,
                                        [quotient EXCEPT
                                           ![Len(quotient) - CeilDiv8(index) + 1]
                                               = BitOr(@, mask)],
                                        s.buffer)
                     ELSE loop(index - 1, quotient, injected)
    IN  IF bitLength(denominator) = 0
        THEN [error |-> "DivisionByZeroError", div |-> <<>>, mod |-> <<>>]
        ELSE IF lt(numerator, denominator)
        THEN [error |-> "none", div |-> <<>>, mod |-> numerator]
        ELSE loop(bitLength(numerator), Zeros(Len(numerator)),
                  Zeros(Len(denominator) + 1))

(***************************************************************************)
(* src/lib/BigNum.ts: the BigNum value and its multiplication.             *)
(*                                                                         *)
(* A BigNum is [buffer, negative]; `negative` is the _negative field, an   *)
(* optional 0 | 1: <<>> while the constructor has left it undefined.       *)
(***************************************************************************)
\* ToInt32 of the _negative field (undefined converts to 0).
NegativeBit(negative) == IF negative = <<>> THEN 0 ELSE negative[1]

\* DataView.getUint16(offset, BIG_ENDIAN)
getUint16(view, offset) == view[offset + 1] * 256 + view[offset + 2]

\* DataView.setUint16(offset, value, BIG_ENDIAN)
setUint16(view, offset, value) ==
    [view EXCEPT ![offset + 1] = (value \div 256) % 256, ![offset + 2] = value % 256]

\* tmp = a * b + sum for 16-bit a, b, sum, split as the code splits it:
\* lo is tmp & 0xffff and hi is tmp >>> 16 (the unsigned 32-bit reading of
\* tmp, shifted).  tmp can reach 0xFFFF0000, past TLC's integers,
\* so it is summed by bytes: a = ah * 256 + al, b = bh * 256 + bl.
MultiplyAdd(a, b, sum) ==
    LET ah == a \div 256
        al == a % 256
        bh == b \div 256
        bl == b % 256
        middle == ah * bl + al * bh
        low == al * bl + sum + (middle % 256) * 256
        high == ah * bh + middle \div 256 + low \div 65536
    IN  [lo |-> low % 65536, hi |-> high % 65536]

\* tmp itself, as the number hi * 0x10000 + lo with 0 <= lo < 0x10000
\* (hi is not cut to 16 bits).
MultiplyAddTmp(a, b, sum) ==
    LET ah == a \div 256
        al == a % 256
        bh == b \div 256
        bl == b % 256
        middle == ah * bl + al * bh
        low == al * bl + sum + (middle % 256) * 256
        high == ah * bh + middle \div 256 + low \div 65536
    IN  [lo |-> low % 65536, hi |-> high]

\* sum = carry, the whole of it.
LaneSumWhole(carry) == carry

\* sum = carry % 0x10000
LaneSum(carry) == carry % 65536

\* carry = Math.floor(carry / 0x10000)
LaneCarry(carry) == carry \div 65536

\* carry >= Number.MAX_SAFE_INTEGER, i.e. carry + 1 >= 2^53 = 2 * 2^26 * 2^26
AtLeastMaxSafeInteger(carry) == ((carry + 1) \div (2 ^ 26)) \div (2 ^ 26) >= 2

\* BigNum.mul.  `carry` is the local carry when the outer loop ends.
mul(this, other) ==
    LET bufferA_ == padToNBytes(this.buffer, 2)
        bufferB_ == padToNBytes(other.buffer, 2)
        negative == IF BitOr(NegativeBit(this.negative), NegativeBit(other.negative))
                        - BitAnd(NegativeBit(this.negative), NegativeBit(other.negative)) = 1
                    THEN <<1>> ELSE <<0>>
        RECURSIVE pairs(_, _, _, _)
        pairs(resultIndex, pairIndex, sum, carry) ==
            IF pairIndex >= 2 /\ resultIndex + 2 - pairIndex <= Len(bufferB_)
            THEN LET tmp == MultiplyAdd(
                                getUint16(bufferA_, Len(bufferA_) - pairIndex),
                                getUint16(bufferB_, Len(bufferB_)
                                                    - (resultIndex + 2 - pairIndex)),
                                sum)
                 IN  pairs(resultIndex, pairIndex - 2, tmp.lo, carry + tmp.hi)
            ELSE [sum |-> sum, carry |-> carry]
        RECURSIVE lanes(_, _, _)
        lanes(resultIndex, carry, result) ==
            IF ~(resultIndex <= Len(result))
            THEN [error |-> "none", buffer |-> result, negative |-> negative,
                  carry |-> carry]
            ELSE IF AtLeastMaxSafeInteger(carry)
            THEN [error |-> "OverflowError", buffer |-> result,
                  negative |-> negative, carry |-> carry]
            ELSE LET lane == pairs(resultIndex, Min(Len(bufferA_), resultIndex),
                                   carry % 65536, carry \div 65536)
                 IN  lanes(resultIndex + 2, lane.carry,
                           setUint16(result, Len(result) - resultIndex, lane.sum))
    IN  lanes(2, 0, padToNBytes(Zeros(Len(this.buffer) + Len(other.buffer)), 2))

(***************************************************************************)
(* src/lib/BigNum.ts: construction and the hex accessor.                   *)
(*                                                                         *)
(* A string is a sequence of one-character strings.  A machine number is   *)
(* an integer written in base 16: [negative, digits], the digits 0..15     *)
(* most significant first with no leading zero (zero has no digit), which  *)
(* reaches past 2^53 where TLC's integers do not.                  *)
(***************************************************************************)
HexDigits ==
    <<"0", "1", "2", "3", "4", "5", "6", "7", "8", "9", "a", "b", "c", "d", "e", "f">>

UpperHexDigits ==
    <<"0", "1", "2", "3", "4", "5", "6", "7", "8", "9", "A", "B", "C", "D", "E", "F">>

\* a character the class [0-9a-fA-F] holds
IsHexCharacter(char) ==
    \E d \in 1..16 : char = HexDigits[d] \/ char = UpperHexDigits[d]

\* the digit a hex character stands for, either case
DigitOf(char) ==
    (CHOOSE d \in 1..16 : char = HexDigits[d] \/ char = UpperHexDigits[d]) - 1

\* Number.parseInt(charPair, 16) of two hex characters
parseInt(charPair) == 16 * DigitOf(charPair[1]) + DigitOf(charPair[2])

\* num.toString(16) of an integer 0..255: lower case, no leading zero
ByteToString16(num) ==
    IF num < 16 THEN <<HexDigits[num + 1]>>
    ELSE <<HexDigits[(num \div 16) + 1], HexDigits[(num % 16) + 1]>>

\* `0${num.toString(16)}`.slice(-2)
PaddedByte(num) ==
    LET text == <<"0">> \o ByteToString16(num)
    IN  SubSeq(text, Len(text) - 1, Len(text))

RECURSIVE Join(_)
Join(strings) ==
    IF strings = <<>> THEN <<>> ELSE Head(strings) \o Join(Tail(strings))

\* parseString that drops a leading 0x before it looks at the digits.
parseStringSkipsPrefix(numberString, base) ==
    LET startsWithMinus == Len(numberString) > 0 /\ numberString[1] = "-"
        negative == IF startsWithMinus THEN 1 ELSE 0
        unsigned == IF startsWithMinus THEN Tail(numberString) ELSE numberString
        sliced == IF Len(unsigned) >= 2 /\ SubSeq(unsigned, 1, 2) = <<"0", "x">>
                  THEN SubSeq(unsigned, 3, Len(unsigned))
                  ELSE unsigned
        padded == IF Len(sliced) % 2 = 1 THEN <<"0">> \o sliced ELSE sliced
        failed(error) == [error |-> error, buffer |-> <<>>, negative |-> <<>>]
    IN  IF base # 16 THEN failed("string")
        ELSE IF \E i \in 1..Len(sliced) : ~IsHexCharacter(sliced[i])
        THEN failed("FormatError")
        ELSE IF padded = <<>> THEN failed("TypeError")
        ELSE [error |-> "none",
              buffer |-> [i \in 1..(Len(padded) \div 2) |->
                             parseInt(SubSeq(padded, 2 * i - 1, 2 * i))],
              negative |-> <<negative>>]

\* parseString.  ''.match(/../g) is null, so with no digit at all the
\* .map call throws a TypeError.
parseString(numberString, base) ==
    LET startsWithMinus == Len(numberString) > 0 /\ numberString[1] = "-"
        negative == IF startsWithMinus THEN 1 ELSE 0
        sliced == IF startsWithMinus THEN Tail(numberString) ELSE numberString
        padded == IF Len(sliced) % 2 = 1 THEN <<"0">> \o sliced ELSE sliced
        failed(error) == [error |-> error, buffer |-> <<>>, negative |-> <<>>]
    IN  IF base # 16 THEN failed("string")
        ELSE IF \E i \in 1..Len(sliced) : ~IsHexCharacter(sliced[i])
        THEN failed("FormatError")
        ELSE IF padded = <<>> THEN failed("TypeError")
        ELSE [error |-> "none",
              buffer |-> [i \in 1..(Len(padded) \div 2) |->
                             parseInt(SubSeq(padded, 2 * i - 1, 2 * i))],
              negative |-> <<negative>>]

\* number < Number.MIN_SAFE_INTEGER || number > Number.MAX_SAFE_INTEGER:
\* 2^53 - 1 is 1fffffffffffff, fourteen digits.
OutsideSafeIntegers(number) ==
    \/ Len(number.digits) > 14
    \/ Len(number.digits) = 14 /\ number.digits[1] > 1

\* number.toString(16)
NumberToString16(number) ==
    IF number.digits = <<>> THEN <<"0">>
    ELSE (IF number.negative THEN <<"-">> ELSE <<>>)
         \o [i \in 1..Len(number.digits) |-> HexDigits[number.digits[i] + 1]]

parseNumber(number) ==
    IF OutsideSafeIntegers(number)
    THEN [error |-> "string", buffer |-> <<>>, negative |-> <<>>]
    ELSE parseString(NumberToString16(number), 16)

Reverse(buffer) == [i \in 1..Len(buffer) |-> buffer[Len(buffer) + 1 - i]]

\* The constructor.  `number` is the argument by type; `argument` is the
\* caller's ArrayBuffer after the call: the value keeps that very buffer,
\* and a little-endian one is reversed where it lies.
BigNumConstructor(number, base, endian) ==
    IF number.kind = "ArrayBuffer"
    THEN LET buffer == IF endian = "le" THEN Reverse(number.buffer)
                       ELSE number.buffer
         IN  [error |-> "none", buffer |-> buffer, negative |-> <<>>,
              argument |-> buffer]
    ELSE IF number.kind = "number"
    THEN LET r == parseNumber(number)
         IN  [error |-> r.error, buffer |-> r.buffer, negative |-> r.negative,
              argument |-> <<>>]
    ELSE IF number.kind = "string"
    THEN LET r == parseString(number.string, base)
         IN  [error |-> r.error, buffer |-> r.buffer, negative |-> r.negative,
              argument |-> <<>>]
    ELSE [error |-> "string", buffer |-> <<>>, negative |-> <<>>,
          argument |-> <<>>]

\* hex that joins num.toString(16) as it is, without the '0' in front of
\* a byte below 16.
hexWithoutPadding(this) ==
    LET joined == Join([i \in 1..Len(this.buffer) |-> ByteToString16(this.buffer[i])])
    IN  IF joined = <<>> THEN <<"0">> ELSE joined

\* get hex
hex(this) ==
    LET joined == Join([i \in 1..Len(this.buffer) |-> PaddedByte(this.buffer[i])])
    IN  IF joined = <<>> THEN <<"0">> ELSE joined

(***************************************************************************)
(* src/lib/BigNum.ts: UTF-8 text as a magnitude.                           *)
(*                                                                         *)
(* A text is a JavaScript string: a sequence of UTF-16 code units.  The    *)
(* code goes through the URI functions of the language, which are          *)
(* modelled as ECMAScript defines them: '%' is code unit 37, 'u' is 117.   *)
(***************************************************************************)
IsHighSurrogate(unit) == unit \in 55296..56319

IsLowSurrogate(unit) == unit \in 56320..57343

\* [0-9A-Za-z]
IsAlphanumeric(unit) == unit \in (48..57) \cup (65..90) \cup (97..122)

\* the characters encodeURIComponent leaves as they are: -_.!~*'()
UriUnreserved(unit) ==
    IsAlphanumeric(unit) \/ unit \in {45, 95, 46, 33, 126, 42, 39, 40, 41}

\* the characters escape leaves as they are: @*_+-./
EscapeUnescaped(unit) ==
    IsAlphanumeric(unit) \/ unit \in {64, 42, 95, 43, 45, 46, 47}

\* the code unit of an upper-case hex digit
HexUnit(digit) == IF digit < 10 THEN 48 + digit ELSE 55 + digit

IsHexUnit(unit) == unit \in (48..57) \cup (65..70) \cup (97..102)

HexUnitValue(unit) ==
    IF unit <= 57 THEN unit - 48 ELSE IF unit <= 70 THEN unit - 55 ELSE unit - 87

\* %XX
PercentEncode(octet) == <<37, HexUnit(octet \div 16), HexUnit(octet % 16)>>

\* the UTF-8 octets of a code point
UTF8Octets(codePoint) ==
    IF codePoint < 128 THEN <<codePoint>>
    ELSE IF codePoint < 2048
    THEN <<192 + (codePoint \div 64), 128 + (codePoint % 64)>>
    ELSE IF codePoint < 65536
    THEN <<224 + (codePoint \div 4096), 128 + ((codePoint \div 64) % 64),
           128 + (codePoint % 64)>>
    ELSE <<240 + (codePoint \div 262144), 128 + ((codePoint \div 4096) % 64),
           128 + ((codePoint \div 64) % 64), 128 + (codePoint % 64)>>

\* encodeURIComponent: a lone surrogate throws a URIError.
encodeURIComponent(string) ==
    LET Escapes(octets) ==
            Join([i \in 1..Len(octets) |-> PercentEncode(octets[i])])
        RECURSIVE Encode(_, _)
        Encode(k, R) ==
            IF k > Len(string) THEN [error |-> "none", string |-> R]
            ELSE IF UriUnreserved(string[k])
            THEN Encode(k + 1, R \o <<string[k]>>)
            ELSE IF IsLowSurrogate(string[k])
            THEN [error |-> "URIError", string |-> <<>>]
            ELSE IF IsHighSurrogate(string[k])
            THEN IF k + 1 > Len(string) \/ ~IsLowSurrogate(string[k + 1])
                 THEN [error |-> "URIError", string |-> <<>>]
                 ELSE Encode(k + 2,
                             R \o Escapes(UTF8Octets(
                                    (string[k] - 55296) * 1024
                                    + (string[k + 1] - 56320) + 65536)))
            ELSE Encode(k + 1, R \o Escapes(UTF8Octets(string[k])))
    IN  Encode(1, <<>>)

\* unescape: %uXXXX and %XX become the code unit they spell.
unescape(string) ==
    LET IsHexAt(k) == IsHexUnit(string[k])
        RECURSIVE Unescape(_, _)
        Unescape(k, R) ==
            IF k > Len(string) THEN R
            ELSE IF /\ string[k] = 37
                    /\ k + 5 <= Len(string)
                    /\ string[k + 1] = 117
                    /\ \A j \in 2..5 : IsHexAt(k + j)
            THEN Unescape(k + 6,
                          R \o <<4096 * HexUnitValue(string[k + 2])
                                 + 256 * HexUnitValue(string[k + 3])
                                 + 16 * HexUnitValue(string[k + 4])
                                 + HexUnitValue(string[k + 5])>>)
            ELSE IF /\ string[k] = 37
                    /\ k + 2 <= Len(string)
                    /\ IsHexAt(k + 1)
                    /\ IsHexAt(k + 2)
            THEN Unescape(k + 3,
                          R \o <<16 * HexUnitValue(string[k + 1])
                                 + HexUnitValue(string[k + 2])>>)
            ELSE Unescape(k + 1, R \o <<string[k]>>)
    IN  Unescape(1, <<>>)

\* Array.from(string, char => char.charCodeAt(0)): a string is iterated by
\* code points, and charCodeAt(0) is the first code unit of each.
charCodes(string) ==
    LET RECURSIVE Iterate(_, _)
        Iterate(k, R) ==
            IF k > Len(string) THEN R
            ELSE IF /\ IsHighSurrogate(string[k])
                    /\ k + 1 <= Len(string)
                    /\ IsLowSurrogate(string[k + 1])
            THEN Iterate(k + 2, R \o <<string[k]>>)
            ELSE Iterate(k + 1, R \o <<string[k]>>)
    IN  Iterate(1, <<>>)

\* parseUTF that takes the char codes of the string itself.
parseUTFOfCharCodes(utf8String) ==
    LET codes == charCodes(utf8String)
    IN  [error |-> "none",
         buffer |-> [i \in 1..Len(codes) |-> codes[i] % 256],
         negative |-> <<0>>]

\* parseUTF: new Uint8Array(array) keeps each number modulo 256.
parseUTF(utf8String) ==
    LET encoded == encodeURIComponent(utf8String)
        utf8CodePoints == unescape(encoded.string)
        codes == charCodes(utf8CodePoints)
    IN  IF encoded.error # "none"
        THEN [error |-> encoded.error, buffer |-> <<>>, negative |-> <<>>]
        ELSE [error |-> "none",
              buffer |-> [i \in 1..Len(codes) |-> codes[i] % 256],
              negative |-> <<0>>]

\* escape
escape(string) ==
    Join([i \in 1..Len(string) |->
            IF EscapeUnescaped(string[i]) THEN <<string[i]>>
            ELSE IF string[i] < 256 THEN PercentEncode(string[i])
            ELSE <<37, 117, HexUnit(string[i] \div 4096),
                   HexUnit((string[i] \div 256) % 16),
                   HexUnit((string[i] \div 16) % 16),
                   HexUnit(string[i] % 16)>>])

\* the number of leading 1 bits of an octet
LeadingOnes(octet) ==
    IF octet < 128 THEN 0
    ELSE IF octet < 192 THEN 1
    ELSE IF octet < 224 THEN 2
    ELSE IF octet < 240 THEN 3
    ELSE IF octet < 248 THEN 4
    ELSE 5

\* the code point a UTF-8 sequence of 2..4 octets spells, when its
\* continuation octets are 10xxxxxx
UTF8CodePoint(octets) ==
    LET n == Len(octets)
        RECURSIVE Fold(_, _)
        Fold(i, acc) ==
            IF i > n THEN acc ELSE Fold(i + 1, acc * 64 + (octets[i] % 64))
    IN  Fold(2, octets[1] % (2 ^ (7 - n)))

\* a valid UTF-8 encoding of a code point: continuation octets, no longer
\* than needed, no surrogate, at most 10FFFF
IsValidUTF8(octets) ==
    /\ \A i \in 2..Len(octets) : octets[i] \in 128..191
    /\ LET codePoint == UTF8CodePoint(octets)
       IN  /\ Len(octets) = 2 => codePoint >= 128
           /\ Len(octets) = 3 => codePoint >= 2048 /\ codePoint \notin 55296..57343
           /\ Len(octets) = 4 => codePoint \in 65536..1114111

\* decodeURIComponent: every %XX is decoded, as UTF-8; anything that is no
\* valid encoding throws a URIError.
decodeURIComponent(string) ==
    LET failed == [error |-> "URIError", string |-> <<>>]
        IsEscapeAt(k) ==
            /\ k + 2 <= Len(string)
            /\ string[k] = 37
            /\ IsHexUnit(string[k + 1])
            /\ IsHexUnit(string[k + 2])
        OctetAt(k) == 16 * HexUnitValue(string[k + 1]) + HexUnitValue(string[k + 2])
        RECURSIVE Decode(_, _)
        Decode(k, R) ==
            IF k > Len(string) THEN [error |-> "none", string |-> R]
            ELSE IF string[k] # 37 THEN Decode(k + 1, R \o <<string[k]>>)
            ELSE IF ~IsEscapeAt(k) THEN failed
            ELSE LET B == OctetAt(k)
                     n == LeadingOnes(B)
                 IN  IF n = 0 THEN Decode(k + 3, R \o <<B>>)
                     ELSE IF n = 1 \/ n > 4 THEN failed
                     ELSE IF \E j \in 1..(n - 1) : ~IsEscapeAt(k + 3 * j)
                     THEN failed
                     ELSE LET octets == [j \in 1..n |-> OctetAt(k + 3 * (j - 1))]
                              V == UTF8CodePoint(octets)
                          IN  IF ~IsValidUTF8(octets) THEN failed
                              ELSE IF V < 65536
                              THEN Decode(k + 3 * n, R \o <<V>>)
                              ELSE Decode(k + 3 * n,
                                          R \o <<55296 + ((V - 65536) \div 1024),
                                                 56320 + ((V - 65536) % 1024)>>)
    IN  Decode(1, <<>>)

\* get utf: String.fromCharCode of each byte, escape, decodeURIComponent;
\* whatever that throws is turned into a FormatError.
utf(this) ==
    LET utf8CodePoints == this.buffer
        decoded == decodeURIComponent(escape(utf8CodePoints))
    IN  IF NegativeBit(this.negative) = 1
        THEN [error |-> "FormatError", string |-> <<>>]
        ELSE IF decoded.error # "none"
        THEN [error |-> "FormatError", string |-> <<>>]
        ELSE [error |-> "none", string |-> decoded.string]

(***************************************************************************)
(* src/lib/bufferUtil.js: the hex helpers behind BigInt.fromHex and        *)
(* BigInt's hex accessor.                                                  *)
(***************************************************************************)
\* fromHex.  With nothing after the prefix, byteChars.match(/.{2}/g) is
\* null and Uint8Array.from(null, ...) throws a TypeError.
fromHex(hex_) ==
    LET byteChars == SubSeq(hex_, 3, Len(hex_))
    IN  IF \/ SubSeq(hex_, 1, Min(2, Len(hex_))) # <<"0", "x">>
           \/ Len(hex_) % 2 # 0
           \/ \E i \in 1..Len(byteChars) : ~IsHexCharacter(byteChars[i])
        THEN [error |-> "FormatError", buffer |-> <<>>]
        ELSE IF byteChars = <<>>
        THEN [error |-> "TypeError", buffer |-> <<>>]
        ELSE [error |-> "none",
              buffer |-> [i \in 1..(Len(byteChars) \div 2) |->
                             parseInt(SubSeq(byteChars, 2 * i - 1, 2 * i))]]

toHex(buffer) ==
    <<"0", "x">> \o Join([i \in 1..Len(buffer) |-> PaddedByte(buffer[i])])

(***************************************************************************)
(* The caller: two buffers, and one call on them.  Every function is a     *)
(* function of its arguments alone, so a run is the choice of the          *)
(* arguments followed by the call.                                         *)
(***************************************************************************)
NoInput == [kind |-> "none"]

NoValue == [kind |-> "none"]

NoProbe == [carry |-> 0]

BufferValue(buffer) == [kind |-> "buffer", buffer |-> buffer]

NumberValue(number) == [kind |-> "number", number |-> number]

BooleanValue(boolean) == [kind |-> "boolean", boolean |-> boolean]

\* new BigNum(buffer): the buffer is kept as it is and _negative is not set.
WrapBuffer(buffer) == [buffer |-> buffer, negative |-> <<>>]

Callable == op = "none"

Init ==
    /\ \/ bufferA \in Buffers /\ bufferB \in Buffers
       \/ bufferA \in ScenarioBuffers /\ bufferB \in ScenarioBuffers
    /\ input = NoInput
    /\ op = "none"
    /\ ret = NoValue
    /\ err = "none"
    /\ probe = NoProbe

\* A call that returns `value` and changes no buffer.
Returns(name, value) ==
    /\ Callable
    /\ op' = name
    /\ ret' = value
    /\ err' = "none"
    /\ probe' = NoProbe
    /\ UNCHANGED <<bufferA, bufferB, input>>

Add == Returns("add", BufferValue(add(bufferA, bufferB)))

Sub ==
    LET r == sub(bufferA, bufferB)
    IN  /\ Callable
        /\ op' = "sub"
        /\ err' = r.error
        /\ ret' = IF r.error = "none" THEN BufferValue(r.buffer) ELSE NoValue
        /\ probe' = NoProbe
        /\ UNCHANGED <<bufferA, bufferB, input>>

SubI ==
    LET r == subI(bufferA, bufferB)
    IN  /\ Callable
        /\ op' = "subI"
        /\ err' = r.error
        /\ ret' = NoValue
        /\ bufferA' = r.buffer
        /\ probe' = [carry |-> 0, before |-> bufferA]
        /\ UNCHANGED <<bufferB, input>>

Mul ==
    LET r == mul(WrapBuffer(bufferA), WrapBuffer(bufferB))
    IN  /\ Callable
        /\ op' = "mul"
        /\ err' = r.error
        /\ ret' = IF r.error = "none"
                  THEN [kind |-> "BigNum", buffer |-> r.buffer,
                        negative |-> r.negative]
                  ELSE NoValue
        /\ probe' = [carry |-> r.carry]
        /\ UNCHANGED <<bufferA, bufferB, input>>

Divmod ==
    LET r == divmod(bufferA, bufferB)
    IN  /\ Callable
        /\ op' = "divmod"
        /\ err' = r.error
        /\ ret' = IF r.error = "none"
                  THEN [kind |-> "divmod", div |-> r.div, mod |-> r.mod]
                  ELSE NoValue
        /\ probe' = NoProbe
        /\ UNCHANGED <<bufferA, bufferB, input>>

SpaceShip == Returns("spaceShip", NumberValue(spaceShip(bufferA, bufferB)))

Cmp == Returns("cmp", NumberValue(cmp(WrapBuffer(bufferA), WrapBuffer(bufferB))))

Eq == Returns("eq", BooleanValue(eq(bufferA, bufferB)))

Gt == Returns("gt", BooleanValue(gt(bufferA, bufferB)))

Lt == Returns("lt", BooleanValue(lt(bufferA, bufferB)))

Gte == Returns("gte", BooleanValue(gte(bufferA, bufferB)))

Lte == Returns("lte", BooleanValue(lte(bufferA, bufferB)))

Next ==
    \/ Add
    \/ Sub
    \/ SubI
    \/ Mul
    \/ Divmod
    \/ SpaceShip
    \/ Cmp
    \/ Eq
    \/ Gt
    \/ Lt
    \/ Gte
    \/ Lte

Spec == Init /\ [][Next]_vars

(***************************************************************************)
(* The caller of the constructors: one argument (a buffer, a string or a   *)
(* number), the construction, and then the value's hex accessor.           *)
(***************************************************************************)
\* The hex digits of a buffer, two per byte.
RECURSIVE Nibbles(_)
Nibbles(buffer) ==
    IF buffer = <<>> THEN <<>>
    ELSE <<buffer[1] \div 16, buffer[1] % 16>> \o Nibbles(Tail(buffer))

RECURSIVE StripZeros(_)
StripZeros(digits) ==
    IF digits = <<>> THEN <<>>
    ELSE IF digits[1] = 0 THEN StripZeros(Tail(digits)) ELSE digits

\* The hex string that spells exactly the bytes of a buffer.
Spelling(buffer) ==
    LET digits == Nibbles(buffer)
    IN  [i \in 1..Len(digits) |-> HexDigits[digits[i] + 1]]

\* The machine integer equal to the value of a buffer, or its negative.
NumberOf(buffer, negative) ==
    [kind |-> "number", negative |-> negative,
     digits |-> StripZeros(Nibbles(buffer))]

ConstructorBuffers == Buffers \cup ScenarioBuffers

Texts ==
    UNION {[1..n -> Alphabet] : n \in 0..MaxTextLen}
        \cup ScenarioTexts
        \cup {Spelling(buffer) : buffer \in ConstructorBuffers}

\* 2^53 - 1, 2^53 and a number of fifteen digits, with either sign.
BoundaryNumbers ==
    { [kind |-> "number", negative |-> negative, digits |-> digits] :
        negative \in BOOLEAN,
        digits \in { <<1>> \o [i \in 1..13 |-> 15],
                     <<2>> \o [i \in 1..13 |-> 0],
                     <<1>> \o [i \in 1..14 |-> 0] } }

Numbers ==
    {NumberOf(buffer, negative) :
        buffer \in ConstructorBuffers, negative \in BOOLEAN}
        \cup BoundaryNumbers

InitConstructor ==
    /\ \/ /\ input \in {[kind |-> "string", string |-> string, base |-> base] :
                           string \in Texts, base \in {16, 10}}
          /\ bufferA = <<>>
       \/ /\ input \in Numbers
          /\ bufferA = <<>>
       \/ /\ input \in {[kind |-> "ArrayBuffer", endian |-> endian] :
                           endian \in {"be", "le"}}
          /\ bufferA \in ConstructorBuffers
    /\ bufferB = <<>>
    /\ op = "none"
    /\ ret = NoValue
    /\ err = "none"
    /\ probe = NoProbe

\* new BigNum(number, base, endian); an ArrayBuffer argument is bufferA.
Construct ==
    LET number == IF input.kind = "ArrayBuffer"
                  THEN [kind |-> "ArrayBuffer", buffer |-> bufferA]
                  ELSE input
        base == IF input.kind = "string" THEN input.base ELSE 16
        endian == IF input.kind = "ArrayBuffer" THEN input.endian ELSE "be"
        r == BigNumConstructor(number, base, endian)
    IN  /\ op = "none"
        /\ input.kind \in {"ArrayBuffer", "number", "string"}
        /\ op' = "BigNum"
        /\ err' = r.error
        /\ ret' = IF r.error = "none"
                  THEN [kind |-> "BigNum", buffer |-> r.buffer,
                        negative |-> r.negative]
                  ELSE NoValue
        /\ bufferA' = IF input.kind = "ArrayBuffer" THEN r.argument ELSE bufferA
        /\ probe' = [carry |-> 0, before |-> bufferA]
        /\ UNCHANGED <<bufferB, input>>

\* the hex accessor of the value just constructed
Hex ==
    /\ op = "BigNum"
    /\ err = "none"
    /\ op' = "hex"
    /\ ret' = [kind |-> "string", string |-> hex(ret)]
    /\ probe' = [carry |-> 0, before |-> probe.before, this |-> ret]
    /\ UNCHANGED <<bufferA, bufferB, input, err>>

\* bufferUtil's BigInt.fromHex(hex)
BigIntFromHex ==
    LET r == fromHex(input.string)
    IN  /\ op = "none"
        /\ input.kind = "string"
        /\ input.base = 16
        /\ op' = "BigInt.fromHex"
        /\ err' = r.error
        /\ ret' = IF r.error = "none"
                  THEN [kind |-> "BigInt", buffer |-> r.buffer]
                  ELSE NoValue
        /\ probe' = NoProbe
        /\ UNCHANGED <<bufferA, bufferB, input>>

\* the hex accessor of the BigInt just constructed
BigIntHex ==
    /\ op = "BigInt.fromHex"
    /\ err = "none"
    /\ op' = "BigInt.hex"
    /\ ret' = [kind |-> "string", string |-> toHex(ret.buffer)]
    /\ probe' = [carry |-> 0, this |-> ret]
    /\ UNCHANGED <<bufferA, bufferB, input, err>>

NextConstructor ==
    \/ Construct
    \/ Hex
    \/ BigIntFromHex
    \/ BigIntHex

SpecConstructor == InitConstructor /\ [][NextConstructor]_vars

(***************************************************************************)
(* The caller of the bit utilities and of the in-place operations: either  *)
(* one buffer and a shift count, or two buffers for subI; then one call.   *)
(***************************************************************************)
ShiftCount(n) == [kind |-> "shift", n |-> n]

InitBits ==
    /\ \/ /\ bufferA \in BitBuffers
          /\ bufferB = <<>>
          /\ input \in {ShiftCount(n) : n \in 0..MaxShift}
       \/ /\ bufferA \in Buffers
          /\ bufferB \in Buffers
          /\ input = NoInput
    /\ op = "none"
    /\ ret = NoValue
    /\ err = "none"
    /\ probe = NoProbe

BitLength == Returns("bitLength", NumberValue(bitLength(bufferA)))

BigNumBitLength ==
    Returns("BigNum.bitLength", NumberValue(BigNum_bitLength(WrapBuffer(bufferA))))

Trim == Returns("trim", BufferValue(trim(bufferA)))

LeftShift ==
    LET r == leftShift(bufferA, input.n)
    IN  /\ Callable
        /\ input.kind = "shift"
        /\ op' = "leftShift"
        /\ err' = r.error
        /\ ret' = IF r.error = "none" THEN BufferValue(r.buffer) ELSE NoValue
        /\ probe' = NoProbe
        /\ UNCHANGED <<bufferA, bufferB, input>>

LeftShiftI ==
    LET r == leftShiftI(bufferA, input.n)
    IN  /\ Callable
        /\ input.kind = "shift"
        /\ op' = "leftShiftI"
        /\ err' = r.error
        /\ ret' = IF r.error = "none" THEN NumberValue(r.carry) ELSE NoValue
        /\ bufferA' = r.buffer
        /\ probe' = [carry |-> 0, before |-> bufferA]
        /\ UNCHANGED <<bufferB, input>>

NextBits ==
    \/ BitLength
    \/ BigNumBitLength
    \/ Trim
    \/ LeftShift
    \/ LeftShiftI
    \/ SubI

SpecBits == InitBits /\ [][NextBits]_vars

(***************************************************************************)
(* The caller of the UTF-8 encoding: a text, the value made of it, and     *)
(* then the value's utf accessor.                                          *)
(***************************************************************************)
UtfTexts ==
    UNION {[1..n -> UtfUnits] : n \in 0..MaxUtfLen} \cup ScenarioUtfTexts

InitUTF ==
    /\ input \in {[kind |-> "text", string |-> string] : string \in UtfTexts}
    /\ bufferA = <<>>
    /\ bufferB = <<>>
    /\ op = "none"
    /\ ret = NoValue
    /\ err = "none"
    /\ probe = NoProbe

\* the value whose [buffer, _negative] is what parseUTF returns
FromUTF ==
    LET r == parseUTF(input.string)
    IN  /\ op = "none"
        /\ input.kind = "text"
        /\ op' = "fromUTF"
        /\ err' = r.error
        /\ ret' = IF r.error = "none"
                  THEN [kind |-> "BigNum", buffer |-> r.buffer,
                        negative |-> r.negative]
                  ELSE NoValue
        /\ probe' = NoProbe
        /\ UNCHANGED <<bufferA, bufferB, input>>

\* the utf accessor of the value just made
Utf ==
    LET r == utf(ret)
    IN  /\ op = "fromUTF"
        /\ err = "none"
        /\ op' = "utf"
        /\ err' = r.error
        /\ ret' = IF r.error = "none"
                  THEN [kind |-> "string", string |-> r.string]
                  ELSE NoValue
        /\ probe' = [carry |-> 0, this |-> ret]
        /\ UNCHANGED <<bufferA, bufferB, input>>

NextUTF ==
    \/ FromUTF
    \/ Utf

SpecUTF == InitUTF /\ [][NextUTF]_vars

(***************************************************************************)
(* A caller that owns two buffers and makes calls in a row, passing them   *)
(* to any operation.  probe keeps what the two buffers held when the last  *)
(* call was made.                                                          *)
(***************************************************************************)
CallBuffers == UNION {[1..n -> Bytes] : n \in 0..MaxCallLen}

InitCalls ==
    /\ bufferA \in CallBuffers
    /\ bufferB \in CallBuffers
    /\ input = NoInput
    /\ op = "none"
    /\ ret = NoValue
    /\ err = "none"
    /\ probe = [carry |-> 0, calls |-> 0, beforeA |-> bufferA, beforeB |-> bufferB]

\* The call `name` with the further argument `argument`: it throws `error`
\* or returns `value`, and leaves `written` in the caller's first buffer.
\* No operation has a view of its second buffer that it writes through.
Call(name, argument, error, value, written) ==
    /\ probe.calls < MaxCalls
    /\ op' = name
    /\ input' = argument
    /\ err' = error
    /\ ret' = IF error = "none" THEN value ELSE NoValue
    /\ bufferA' = written
    /\ probe' = [carry |-> 0, calls |-> probe.calls + 1,
                 beforeA |-> bufferA, beforeB |-> bufferB]
    /\ UNCHANGED bufferB

CallAdd == Call("add", NoInput, "none", BufferValue(add(bufferA, bufferB)), bufferA)

CallSub ==
    LET r == sub(bufferA, bufferB)
    IN  Call("sub", NoInput, r.error, BufferValue(r.buffer), bufferA)

CallMul ==
    LET r == mul(WrapBuffer(bufferA), WrapBuffer(bufferB))
    IN  Call("mul", NoInput, r.error,
             [kind |-> "BigNum", buffer |-> r.buffer, negative |-> r.negative],
             bufferA)

CallDivmod ==
    LET r == divmod(bufferA, bufferB)
    IN  Call("divmod", NoInput, r.error,
             [kind |-> "divmod", div |-> r.div, mod |-> r.mod], bufferA)

CallLeftShift ==
    \E n \in CallShifts :
        LET r == leftShift(bufferA, n)
        IN  Call("leftShift", ShiftCount(n), r.error, BufferValue(r.buffer), bufferA)

CallTrim == Call("trim", NoInput, "none", BufferValue(trim(bufferA)), bufferA)

CallBitLength ==
    Call("bitLength", NoInput, "none", NumberValue(bitLength(bufferA)), bufferA)

CallSpaceShip ==
    Call("spaceShip", NoInput, "none", NumberValue(spaceShip(bufferA, bufferB)),
         bufferA)

CallCompare ==
    \/ Call("eq", NoInput, "none", BooleanValue(eq(bufferA, bufferB)), bufferA)
    \/ Call("gt", NoInput, "none", BooleanValue(gt(bufferA, bufferB)), bufferA)
    \/ Call("lt", NoInput, "none", BooleanValue(lt(bufferA, bufferB)), bufferA)
    \/ Call("gte", NoInput, "none", BooleanValue(gte(bufferA, bufferB)), bufferA)
    \/ Call("lte", NoInput, "none", BooleanValue(lte(bufferA, bufferB)), bufferA)

\* new BigNum(bufferA, 16, endian): the value keeps the caller's buffer.
CallConstruct ==
    \E endian \in {"be", "le"} :
        LET r == BigNumConstructor([kind |-> "ArrayBuffer", buffer |-> bufferA],
                                   16, endian)
        IN  Call("BigNum", [kind |-> "ArrayBuffer", endian |-> endian], r.error,
                 [kind |-> "BigNum", buffer |-> r.buffer, negative |-> r.negative],
                 r.argument)

CallSubI ==
    LET r == subI(bufferA, bufferB)
    IN  Call("subI", NoInput, r.error, NoValue, r.buffer)

CallLeftShiftI ==
    \E n \in CallShifts :
        LET r == leftShiftI(bufferA, n)
        IN  Call("leftShiftI", ShiftCount(n), r.error, NumberValue(r.carry), r.buffer)

NextCalls ==
    \/ CallAdd
    \/ CallSub
    \/ CallMul
    \/ CallDivmod
    \/ CallLeftShift
    \/ CallTrim
    \/ CallBitLength
    \/ CallSpaceShip
    \/ CallCompare
    \/ CallConstruct
    \/ CallSubI
    \/ CallLeftShiftI

SpecCalls == InitCalls /\ [][NextCalls]_vars

(***************************************************************************)
(* BigNum.mul step by step: probe holds the locals of the call, and pc is  *)
(* "lane" at the head of the outer loop and "pair" at the head of the      *)
(* inner one.                                                              *)
(***************************************************************************)
InitMul ==
    /\ \/ bufferA \in Buffers /\ bufferB \in Buffers
       \/ bufferA \in ScenarioBuffers /\ bufferB \in ScenarioBuffers
       \/ bufferA = ScenarioWideBuffer /\ bufferB = ScenarioWideBuffer
    /\ input = NoInput
    /\ op = "none"
    /\ ret = NoValue
    /\ err = "none"
    /\ probe = NoProbe

\* lines 85-98: the buffers, the views and carry = 0
MulEnter ==
    /\ op = "none"
    /\ op' = "BigNum.mul"
    /\ probe' = [carry |-> 0, pc |-> "lane", resultIndex |-> 2, pairIndex |-> 0,
                 sum |-> 0, tmp |-> [lo |-> 0, hi |-> 0],
                 result |-> padToNBytes(Zeros(Len(bufferA) + Len(bufferB)), 2),
                 aView |-> padToNBytes(bufferA, 2),
                 bView |-> padToNBytes(bufferB, 2)]
    /\ UNCHANGED <<bufferA, bufferB, input, ret, err>>

\* lines 115-132: one more lane; the guard, then sum and carry are taken
\* from the carry of the lane before.
MulLane ==
    /\ op = "BigNum.mul"
    /\ probe.pc = "lane"
    /\ probe.resultIndex <= Len(probe.result)
    /\ IF AtLeastMaxSafeInteger(probe.carry)
       THEN /\ err' = "OverflowError"
            /\ probe' = [probe EXCEPT !.pc = "thrown"]
       ELSE /\ err' = err
            /\ probe' = [probe EXCEPT
                           !.pc = "pair",
                           !.sum = LaneSum(probe.carry),
                           !.carry = LaneCarry(probe.carry),
                           !.pairIndex = Min(Len(probe.aView), probe.resultIndex)]
    /\ UNCHANGED <<bufferA, bufferB, input, op, ret>>

\* the condition of the inner loop
MulHasPair ==
    /\ probe.pairIndex >= 2
    /\ probe.resultIndex + 2 - probe.pairIndex <= Len(probe.bView)

\* lines 136-143: one pair of 16-bit values
MulPair ==
    /\ op = "BigNum.mul"
    /\ probe.pc = "pair"
    /\ MulHasPair
    /\ LET a == getUint16(probe.aView, Len(probe.aView) - probe.pairIndex)
           b == getUint16(probe.bView,
                          Len(probe.bView)
                          - (probe.resultIndex + 2 - probe.pairIndex))
           split == MultiplyAdd(a, b, probe.sum)
       IN  probe' = [probe EXCEPT
                       !.tmp = MultiplyAddTmp(a, b, probe.sum),
                       !.sum = split.lo,
                       !.carry = probe.carry + split.hi,
                       !.pairIndex = probe.pairIndex - 2]
    /\ UNCHANGED <<bufferA, bufferB, input, op, ret, err>>

\* line 146: the lane is written
MulStore ==
    /\ op = "BigNum.mul"
    /\ probe.pc = "pair"
    /\ ~MulHasPair
    /\ probe' = [probe EXCEPT
                   !.pc = "lane",
                   !.result = setUint16(probe.result,
                                        Len(probe.result) - probe.resultIndex,
                                        probe.sum),
                   !.resultIndex = probe.resultIndex + 2]
    /\ UNCHANGED <<bufferA, bufferB, input, op, ret, err>>

\* lines 148-150
MulReturn ==
    /\ op = "BigNum.mul"
    /\ probe.pc = "lane"
    /\ ~(probe.resultIndex <= Len(probe.result))
    /\ probe' = [probe EXCEPT !.pc = "done"]
    /\ ret' = [kind |-> "BigNum", buffer |-> probe.result, negative |-> <<0>>]
    /\ UNCHANGED <<bufferA, bufferB, input, op, err>>

NextMul ==
    \/ MulEnter
    \/ MulLane
    \/ MulPair
    \/ MulStore
    \/ MulReturn

SpecMul == InitMul /\ [][NextMul]_vars

(***************************************************************************)
(* divmod step by step: probe holds the locals of the call, and pc is      *)
(* "shift" at the head of the long-division loop and "compare" after the   *)
(* bit of the numerator has been put into the remainder.  probe.carry is   *)
(* what the last leftShiftI returned.                                      *)
(***************************************************************************)
\* lines 488-506: the two early exits, or the buffers of the loop
DivmodEnter ==
    /\ op = "none"
    /\ op' = "divmod"
    /\ IF bitLength(bufferB) = 0
       THEN /\ err' = "DivisionByZeroError"
            /\ ret' = ret
            /\ probe' = [carry |-> 0, pc |-> "thrown"]
       ELSE IF lt(bufferA, bufferB)
       THEN /\ err' = err
            /\ ret' = [kind |-> "divmod", div |-> <<>>, mod |-> bufferA]
            /\ probe' = [carry |-> 0, pc |-> "returned"]
       ELSE /\ err' = err
            /\ ret' = ret
            /\ probe' = [carry |-> 0, pc |-> "shift",
                         index |-> bitLength(bufferA),
                         quotient |-> Zeros(Len(bufferA)),
                         remainder |-> Zeros(Len(bufferB) + 1)]
    /\ UNCHANGED <<bufferA, bufferB, input>>

\* lines 506-508: the remainder is shifted by one bit and the next bit of
\* the numerator is put into its last byte
DivmodShift ==
    /\ op = "divmod"
    /\ probe.pc = "shift"
    /\ probe.index > 0
    /\ LET shifted == leftShiftI(probe.remainder, 1)
           byteIndex == Len(bufferA) - CeilDiv8(probe.index)
           mask == 2 ^ ((probe.index - 1) % 8)
           bit == IF BitAnd(bufferA[byteIndex + 1], mask) # 0 THEN 1 ELSE 0
       IN  probe' = [probe EXCEPT
                       !.pc = "compare",
                       !.carry = shifted.carry,
                       !.remainder = [shifted.buffer EXCEPT
                                        ![Len(shifted.buffer)] = BitOr(@, bit)]]
    /\ UNCHANGED <<bufferA, bufferB, input, op, ret, err>>

\* lines 509-513: the denominator is taken off the remainder when it is not
\* above it, and the bit of the quotient is set; then index--
DivmodCompare ==
    /\ op = "divmod"
    /\ probe.pc = "compare"
    /\ IF gte(probe.remainder, bufferB)
       THEN LET s == subI(probe.remainder, bufferB)
                mask == 2 ^ ((probe.index - 1) % 8)
            IN  IF s.error # "none"
                THEN /\ err' = s.error
                     /\ probe' = [probe EXCEPT !.pc = "thrown"]
                ELSE /\ err' = err
                     /\ probe' = [probe EXCEPT
                                    !.pc = "shift",
                                    !.remainder = s.buffer,
                                    !.quotient[Len(probe.quotient)
                                               - CeilDiv8(probe.index) + 1]
                                        = BitOr(@, mask),
                                    !.index = probe.index - 1]
       ELSE /\ err' = err
            /\ probe' = [probe EXCEPT !.pc = "shift", !.index = probe.index - 1]
    /\ UNCHANGED <<bufferA, bufferB, input, op, ret>>

\* line 515
DivmodReturn ==
    /\ op = "divmod"
    /\ probe.pc = "shift"
    /\ ~(probe.index > 0)
    /\ probe' = [probe EXCEPT !.pc = "done"]
    /\ ret' = [kind |-> "divmod", div |-> probe.quotient, mod |-> probe.remainder]
    /\ UNCHANGED <<bufferA, bufferB, input, op, err>>

NextDivmod ==
    \/ DivmodEnter
    \/ DivmodShift
    \/ DivmodCompare
    \/ DivmodReturn

SpecDivmod == Init /\ [][NextDivmod]_vars

(***************************************************************************)
(* The claims about the arithmetic engines, checked under Spec.            *)
(***************************************************************************)
\* The first argument as it was when the call was made.
ArgumentA == IF op \in {"subI", "leftShiftI"} THEN probe.before ELSE bufferA

\* -1, 0 or 1 as value(x) <, =, > value(y)
ValueOrder(x, y) ==
    IF ValueLess(x, y) THEN -1 ELSE IF ValueLess(y, x) THEN 1 ELSE 0

\* C1: the value of add(a, b) is value(a) + value(b), for buffers of any
\* lengths, empty ones and ones with leading zero bytes included.
C1_AddIsSum ==
    op = "add" => /\ err = "none"
                  /\ ret.kind = "buffer"
                  /\ IsSum(ret.buffer, bufferA, bufferB)

\* C1 witness: operands of different lengths, the longer one with a leading
\* zero byte, whose byte sums carry.
C1_Witness ==
    /\ op = "add"
    /\ Len(bufferA) > Len(bufferB)
    /\ Len(bufferB) > 0
    /\ bufferA[1] = 0
    /\ bufferA[Len(bufferA)] + bufferB[Len(bufferB)] > 255
    /\ ~IsZero(ret.buffer)

\* C2 (as claimed): whenever value(a) >= value(b), whatever the lengths,
\* sub(a, b) returns value(a) - value(b) and subI(a, b) leaves it in a.
C2_SubIsDifference ==
    (op \in {"sub", "subI"} /\ ~ValueLess(ArgumentA, bufferB))
        => /\ err = "none"
           /\ IsSum(ArgumentA,
                    IF op = "sub" THEN ret.buffer ELSE bufferA,
                    bufferB)

\* C2, where the code agrees with it: the same, for b no longer than a.
C2_SubIsDifferenceWhenNotLonger ==
    (/\ op \in {"sub", "subI"}
     /\ ~ValueLess(ArgumentA, bufferB)
     /\ Len(bufferB) <= Len(ArgumentA))
        => /\ err = "none"
           /\ IsSum(ArgumentA,
                    IF op = "sub" THEN ret.buffer ELSE bufferA,
                    bufferB)

\* C3: the magnitude of a.mul(b) has value value(a) * value(b), and the
\* carry left after the most significant output lane is zero.
C3_MulIsProduct ==
    op = "mul" => /\ err = "none"
                  /\ ret.kind = "BigNum"
                  /\ IsProduct(ret.buffer, bufferA, bufferB)
                  /\ probe.carry = 0

\* C3 witness: two operands of odd length (two lanes each after padding),
\* both with the largest top byte.
C3_Witness ==
    /\ op = "mul"
    /\ Len(bufferA) = 3
    /\ Len(bufferB) = 3
    /\ bufferA[1] = 255
    /\ bufferB[1] = 255
    /\ ret.buffer[1] # 0

\* C4: for value(b) > 0, divmod(a, b) returns {div, mod} with
\* value(div) * value(b) + value(mod) = value(a) and value(mod) < value(b).
C4_DivmodLaw ==
    (op = "divmod" /\ ~IsZero(bufferB))
        => /\ err = "none"
           /\ ret.kind = "divmod"
           /\ IsQuotRem(ret.div, ret.mod, bufferA, bufferB)
           /\ ValueLess(ret.mod, bufferB)

\* C4 witness: the long-division path with a denominator that has a leading
\* zero byte, a quotient above 255 and a non-zero remainder.
C4_Witness ==
    /\ op = "divmod"
    /\ err = "none"
    /\ Len(bufferB) > 1
    /\ bufferB[1] = 0
    /\ Len(Canon(ret.div)) > 1
    /\ ~IsZero(ret.mod)

\* C5: spaceShip and BigNum.cmp return -1, 0 or 1 as value(a) <, =, >
\* value(b), and the relational operators follow; so zero bytes put in front
\* of either operand change nothing, swapping the operands negates the
\* result, and an all-zero buffer eq the empty one.
C5_CompareIsValueOrder ==
    /\ op \in {"spaceShip", "cmp"}
          => /\ ret.number = ValueOrder(bufferA, bufferB)
             /\ spaceShip(bufferB, bufferA) = -ret.number
             /\ spaceShip(<<0>> \o bufferA, bufferB) = ret.number
             /\ spaceShip(bufferA, <<0, 0>> \o bufferB) = ret.number
    /\ op = "eq" => ret.boolean = ValueEq(bufferA, bufferB)
    /\ op = "lt" => ret.boolean = ValueLess(bufferA, bufferB)
    /\ op = "gt" => ret.boolean = ValueLess(bufferB, bufferA)
    /\ op = "lte" => ret.boolean = ~ValueLess(bufferB, bufferA)
    /\ op = "gte" => ret.boolean = ~ValueLess(bufferA, bufferB)

\* C5 witness: the longer operand is the smaller one, because of its
\* leading zero bytes.
C5_Witness ==
    /\ op = "spaceShip"
    /\ Len(bufferA) > Len(bufferB)
    /\ bufferA[1] = 0
    /\ ~IsZero(bufferA)
    /\ ret.number = -1

\* C6: whenever value(a) < value(b), sub(a, b) and subI(a, b) throw an
\* OverflowError and return nothing.
C6_SubUnderflowThrows ==
    (op \in {"sub", "subI"} /\ ValueLess(ArgumentA, bufferB))
        => /\ err = "OverflowError"
           /\ ret = NoValue

\* C6 witness: a is the longer buffer and still the smaller value.
C6_Witness ==
    /\ op = "sub"
    /\ Len(bufferA) > Len(bufferB)
    /\ ~IsZero(bufferA)
    /\ err = "OverflowError"

\* C7: divmod throws DivisionByZeroError iff the denominator has no bit set
\* (empty or all zero), whatever the numerator; otherwise it returns a
\* {div, mod} pair.
C7_DivisionByZeroIff ==
    op = "divmod"
        => /\ (err = "DivisionByZeroError") <=> IsZero(bufferB)
           /\ ~IsZero(bufferB) => (err = "none" /\ ret.kind = "divmod")
           /\ IsZero(bufferB) => ret = NoValue

\* C7 witness: an all-zero denominator of several bytes under an empty
\* numerator.
C7_Witness ==
    /\ op = "divmod"
    /\ Len(bufferB) > 1
    /\ bufferA = <<>>
    /\ err = "DivisionByZeroError"

\* value(x) + value(y) >= 256^n, for x and y of at most n bytes: y is
\* above what is left under 256^n - 1, the complement of x on n bytes.
SumOverflows(x, y, n) ==
    LET padded == Zeros(n - Len(x)) \o x
        complement == [i \in 1..n |-> 255 - padded[i]]
    IN  ValueLess(complement, y)

\* C19: add(a, b) returns max(len(a), len(b)) bytes when the sum fits them,
\* and one byte more, the first of them 0x01, exactly when a carry is left
\* after the most significant byte (value(a) + value(b) >= 256^max).
C19_AddLength ==
    op = "add"
        => LET longest == Max(Len(bufferA), Len(bufferB))
           IN  /\ err = "none"
               /\ Len(ret.buffer) \in {longest, longest + 1}
               /\ Len(ret.buffer) = longest + 1
                     <=> SumOverflows(bufferA, bufferB, longest)
               /\ Len(ret.buffer) = longest + 1 => ret.buffer[1] = 1

\* C19 witness: a shorter operand has made the longer one overflow, through
\* a carry that ran across every byte.
C19_Witness ==
    /\ op = "add"
    /\ bufferA = <<255, 255, 255>>
    /\ bufferB = <<1>>
    /\ ret.buffer = <<1, 0, 0, 0>>

(***************************************************************************)
(* The claims about construction, checked under SpecConstructor.           *)
(***************************************************************************)
\* the argument is `text`, read in base 16
InputIsText(text) ==
    input.kind = "string" /\ input.base = 16 /\ input.string = text

\* C8 (as claimed): from a base-16 string that is an optional '-' and then
\* zero or more hex digits, construction succeeds, the sign flag is set iff
\* the '-' is there, and the buffer holds the digits, one '0' put in front
\* of an odd count; any other string fails with a FormatError.
C8_HexStringParses ==
    (op = "BigNum" /\ input.kind = "string" /\ input.base = 16)
        => LET minus == Len(input.string) > 0 /\ input.string[1] = "-"
               digits == IF minus THEN Tail(input.string) ELSE input.string
           IN  IF \A i \in 1..Len(digits) : IsHexCharacter(digits[i])
               THEN /\ err = "none"
                    /\ ret.negative = <<IF minus THEN 1 ELSE 0>>
                    /\ Nibbles(ret.buffer)
                         = (IF Len(digits) % 2 = 1 THEN <<0>> ELSE <<>>)
                           \o [i \in 1..Len(digits) |-> DigitOf(digits[i])]
               ELSE err = "FormatError"

\* C8, where the code agrees with it: the same, for strings with at least
\* one character after the optional '-'.
C8_HexStringParsesWithADigit ==
    (/\ op = "BigNum"
     /\ input.kind = "string"
     /\ input.base = 16
     /\ input.string \notin {<<>>, <<"-">>})
        => C8_HexStringParses

\* C9 (as claimed): a value constructed from "0x123ff8" is constructed, and
\* its hex accessor renders "123ff8".
C9_PrefixAcceptedAndNotEmitted ==
    InputIsText(<<"0", "x", "1", "2", "3", "f", "f", "8">>)
        => /\ op \in {"BigNum", "BigInt.fromHex"} => err = "none"
           /\ op \in {"hex", "BigInt.hex"}
                  => ret.string = <<"1", "2", "3", "f", "f", "8">>

\* C9 (amended): new BigNum("0x123ff8") fails with a FormatError, and
\* new BigNum("123ff8") is constructed and renders "123ff8"; bufferUtil's
\* fromHex takes "0x123ff8" (and refuses "123ff8"), and its toHex renders
\* the prefix again: "0x123ff8".
C9_PrefixRefusedOrEmitted ==
    /\ InputIsText(<<"0", "x", "1", "2", "3", "f", "f", "8">>)
          => /\ op = "BigNum" => err = "FormatError"
             /\ op = "BigInt.fromHex"
                    => err = "none" /\ ret.buffer = <<18, 63, 248>>
             /\ op = "BigInt.hex"
                    => ret.string = <<"0", "x", "1", "2", "3", "f", "f", "8">>
    /\ InputIsText(<<"1", "2", "3", "f", "f", "8">>)
          => /\ op = "BigNum" /\ input.base = 16
                    => err = "none" /\ ret.buffer = <<18, 63, 248>>
             /\ op = "hex" => ret.string = <<"1", "2", "3", "f", "f", "8">>
             /\ op = "BigInt.fromHex" => err = "FormatError"

\* C9 witness: both renderings have been produced.
C9_Witness ==
    \/ /\ op = "hex"
       /\ InputIsText(<<"1", "2", "3", "f", "f", "8">>)
       /\ ret.string = <<"1", "2", "3", "f", "f", "8">>
    \/ /\ op = "BigInt.hex"
       /\ InputIsText(<<"0", "x", "1", "2", "3", "f", "f", "8">>)
       /\ ret.string = <<"0", "x", "1", "2", "3", "f", "f", "8">>

\* C10 (as claimed): for a buffer B, the hex string H that spells its
\* bytes and the number N equal to its value, new BigNum(B), new
\* BigNum(H, 16) and new BigNum(N) all hold a buffer equal to B byte for
\* byte.
C10_ConstructorsKeepTheBytes ==
    op = "BigNum"
        => \A B \in ConstructorBuffers :
              ( \/ /\ input.kind = "ArrayBuffer"
                   /\ input.endian = "be"
                   /\ probe.before = B
                \/ /\ input.kind = "string"
                   /\ input.base = 16
                   /\ input.string = Spelling(B)
                \/ input = NumberOf(B, FALSE) )
                 => err = "none" /\ ret.buffer = B

\* C10, where the code agrees with it: the buffer is kept as it is, a
\* spelling of at least one byte is read back byte for byte, and the
\* number gives the bytes of B without its leading zero bytes (one zero
\* byte for the value zero).
C10_ConstructorsKeepTheValue ==
    op = "BigNum"
        => \A B \in ConstructorBuffers :
              /\ (input.kind = "ArrayBuffer" /\ input.endian = "be"
                      /\ probe.before = B)
                     => err = "none" /\ ret.buffer = B /\ bufferA = B
              /\ (InputIsText(Spelling(B)) /\ B # <<>>)
                     => err = "none" /\ ret.buffer = B
              /\ input = NumberOf(B, FALSE)
                     => /\ err = "none"
                        /\ ret.buffer = IF IsZero(B) THEN <<0>> ELSE Canon(B)

\* |n| <= 2^53 - 1 = 1fffffffffffff, on the hex digits of n
IsSafeInteger(number) ==
    \/ Len(number.digits) < 14
    \/ Len(number.digits) = 14 /\ number.digits[1] = 1

\* new BigNum(n) has made a value of magnitude |n| whose sign flag is set
\* iff n < 0
ConstructedFromNumber ==
    /\ err = "none"
    /\ ret.kind = "BigNum"
    /\ StripZeros(Nibbles(ret.buffer)) = input.digits
    /\ ret.negative = <<IF input.negative /\ input.digits # <<>> THEN 1 ELSE 0>>

\* C13 (as claimed): new BigNum(n) for a number n outside
\* [MIN_SAFE_INTEGER, MAX_SAFE_INTEGER] fails with a FormatError or an
\* OverflowError and makes no value; for an integer n inside the range it
\* makes a value of magnitude |n| whose sign flag is set iff n < 0.
C13_NumberRangeFailsWithErrorKind ==
    (op = "BigNum" /\ input.kind = "number")
        => IF IsSafeInteger(input)
           THEN ConstructedFromNumber
           ELSE err \in {"FormatError", "OverflowError"} /\ ret = NoValue

\* C13, where the code agrees with it: outside the range the construction
\* fails and makes no value (what is thrown is a string, no error kind);
\* inside it the value is made as claimed.
C13_NumberRangeFails ==
    (op = "BigNum" /\ input.kind = "number")
        => IF IsSafeInteger(input)
           THEN ConstructedFromNumber
           ELSE err = "string" /\ ret = NoValue

\* a hex digit in lower case
ToLowerCase(char) ==
    CASE char = "A" -> "a"
      [] char = "B" -> "b"
      [] char = "C" -> "c"
      [] char = "D" -> "d"
      [] char = "E" -> "e"
      [] char = "F" -> "f"
      [] OTHER -> char

IsLowerHexText(string) ==
    \A i \in 1..Len(string) : \E d \in 1..16 : string[i] = HexDigits[d]

\* C16: for a string s of at least one hex digit after an optional '-',
\* new BigNum(s, 16) is made and its hex accessor returns the digits of s in
\* lower case, after one '0' when their count is odd: lower case, of even
\* length, without a sign marker.  A value whose buffer is empty renders
\* as "0".
C16_HexRendersTheDigits ==
    /\ (op \in {"BigNum", "hex"} /\ input.kind = "string" /\ input.base = 16)
          => LET minus == Len(input.string) > 0 /\ input.string[1] = "-"
                 digits == IF minus THEN Tail(input.string) ELSE input.string
             IN  (/\ Len(digits) > 0
                  /\ \A i \in 1..Len(digits) : IsHexCharacter(digits[i]))
                     => /\ err = "none"
                        /\ op = "hex"
                              => /\ ret.string
                                      = (IF Len(digits) % 2 = 1 THEN <<"0">> ELSE <<>>)
                                        \o [i \in 1..Len(digits) |->
                                               ToLowerCase(digits[i])]
                                 /\ IsLowerHexText(ret.string)
                                 /\ Len(ret.string) % 2 = 0
    /\ (op = "hex" /\ probe.this.buffer = <<>>) => ret.string = <<"0">>

\* C16 witness: "-F", one upper-case digit under a sign, has rendered "0f".
C16_Witness ==
    /\ op = "hex"
    /\ InputIsText(<<"-", "F">>)
    /\ probe.this.negative = <<1>>
    /\ ret.string = <<"0", "f">>

(***************************************************************************)
(* The claims about the bit utilities and the in-place operations,         *)
(* checked under SpecBits.                                                 *)
(***************************************************************************)
\* C11: bitLength, the function and the accessor of a BigNum, returns 0 for
\* an empty or all-zero buffer and otherwise the L with
\* 2^(L-1) <= value(buffer) < 2^L: with c the buffer without its leading
\* zero bytes, L = 8 * (len(c) - 1) + k where 2^(k-1) <= c[0] < 2^k.  A
\* zero byte put in front changes nothing.
C11_BitLengthIsTopBit ==
    op \in {"bitLength", "BigNum.bitLength"}
        => LET c == Canon(bufferA)
               L == ret.number
               k == L - 8 * (Len(c) - 1)
           IN  /\ err = "none"
               /\ IF IsZero(bufferA) THEN L = 0
                  ELSE /\ k \in 1..8
                       /\ 2 ^ (k - 1) <= c[1]
                       /\ c[1] < 2 ^ k
               /\ bitLength(<<0>> \o bufferA) = L
               /\ BigNum_bitLength(WrapBuffer(<<0, 0>> \o bufferA)) = L

\* C11 witness: a buffer with a leading zero byte whose first non-zero byte
\* is a power of two, followed by a further byte.
C11_Witness ==
    /\ op = "bitLength"
    /\ Len(bufferA) = 3
    /\ bufferA[1] = 0
    /\ bufferA[2] = 128
    /\ ret.number = 16

\* C18: for 0 <= n <= 24, leftShift(buf, n) returns a buffer of value
\* value(buf) * 2^n that is 0 to 3 bytes longer than buf and no longer than
\* needed (a byte put in front is not zero); leftShiftI(buf, n) keeps the
\* length of buf, leaves (value(buf) * 2^n) mod 256^len in it and returns
\* the rest, floor(value(buf) * 2^n / 256^len): the carry, written in front
\* of buf, spells value(buf) * 2^n.
C18_LeftShiftMultiplies ==
    /\ (op = "leftShift" /\ input.n <= 24)
          => /\ err = "none"
             /\ IsShifted(ret.buffer, bufferA, input.n)
             /\ Len(ret.buffer) - Len(bufferA) \in 0..3
             /\ Len(ret.buffer) > Len(bufferA) => ret.buffer[1] # 0
             /\ SubSeq(ret.buffer, Len(ret.buffer) - Len(bufferA) + 1,
                       Len(ret.buffer))
                  = leftShiftI(bufferA, input.n).buffer
    /\ (op = "leftShiftI" /\ input.n <= 24)
          => /\ err = "none"
             /\ Len(bufferA) = Len(probe.before)
             /\ ret.number \in 0..(2 ^ 24 - 1)
             /\ IsShifted(<<ret.number \div 65536, (ret.number \div 256) % 256,
                            ret.number % 256>> \o bufferA,
                          probe.before, input.n)

\* C18 witness: a buffer whose first byte has its top bit set has been
\* shifted by 24 and has grown by three bytes.
C18_Witness ==
    /\ op = "leftShift"
    /\ input.n = 24
    /\ Len(bufferA) = 2
    /\ bufferA[1] >= 128
    /\ bufferA[2] >= 128
    /\ Len(ret.buffer) = 5

(***************************************************************************)
(* The claim about UTF-8 text, checked under SpecUTF.                      *)
(***************************************************************************)
\* a valid text: every surrogate code unit is half of a pair
IsWellFormed(string) ==
    \A k \in 1..Len(string) :
        /\ string[k] \in 55296..56319
               => k < Len(string) /\ string[k + 1] \in 56320..57343
        /\ string[k] \in 56320..57343
               => k > 1 /\ string[k - 1] \in 55296..56319

\* C12: a valid text s is encoded as a magnitude, and the utf accessor of
\* that value returns s, code unit for code unit; so also for text with
\* code points of several octets and text that begins with NUL.
C12_UtfRoundTrip ==
    (input.kind = "text" /\ IsWellFormed(input.string))
        => /\ op = "fromUTF" => err = "none"
           /\ op = "utf" => err = "none" /\ ret.string = input.string

\* C12 witness: a text of NUL and a syllable of three octets has made the
\* round trip through the bytes 00 ed 95 9c.
C12_Witness ==
    /\ op = "utf"
    /\ input.string = <<0, 54620>>
    /\ probe.this.buffer = <<0, 237, 149, 156>>
    /\ ret.string = <<0, 54620>>

\* C14: a failing in-place call leaves its target as it was.  subI(a, b)
\* throws an OverflowError whenever value(a) < value(b), leftShiftI(buf, n)
\* throws whenever n > 24, and after either every byte of the target, and of
\* the other argument, is what it was before the call.
C14_FailedInPlaceCallKeepsTarget ==
    op \in {"subI", "leftShiftI"}
        => /\ (op = "subI" /\ ValueLess(probe.before, bufferB))
                  => err = "OverflowError"
           /\ (op = "leftShiftI" /\ input.n > 24) => err = "Error"
           /\ err # "none" => bufferA = probe.before /\ ret = NoValue

\* C14 witness: a shift by 25 of a buffer with bits set has been refused.
C14_Witness ==
    /\ op = "leftShiftI"
    /\ input.n = 25
    /\ err = "Error"
    /\ Len(bufferA) = 3
    /\ bufferA[3] = 255
    /\ bufferA = probe.before

(***************************************************************************)
(* The claim about the caller's buffers, checked under SpecCalls.          *)
(***************************************************************************)
\* C15 (as claimed): after any sequence of calls, a call to an operation
\* that is not in place (add, sub, mul, divmod, leftShift, trim, bitLength,
\* a comparison, the construction of a BigNum from a buffer with either
\* endianness tag) leaves both buffers of the caller as they were; subI and
\* leftShiftI change at most their first argument.
C15_ArgumentsKeepTheirBytes ==
    /\ op \notin {"none", "subI", "leftShiftI"}
          => bufferA = probe.beforeA /\ bufferB = probe.beforeB
    /\ op \in {"subI", "leftShiftI"} => bufferB = probe.beforeB

\* C15, where the code agrees with it: the same, but for the construction
\* with the tag 'le', which leaves the caller's buffer reversed.
C15_ArgumentsKeepTheirBytesUnlessLittleEndian ==
    /\ (op \notin {"none", "subI", "leftShiftI"}
          /\ ~(op = "BigNum" /\ input.endian = "le"))
          => bufferA = probe.beforeA /\ bufferB = probe.beforeB
    /\ (op = "BigNum" /\ input.endian = "le")
          => /\ bufferA = Reverse(probe.beforeA)
             /\ bufferB = probe.beforeB
             /\ ret.buffer = bufferA
    /\ op \in {"subI", "leftShiftI"} => bufferB = probe.beforeB

(***************************************************************************)
(* The claim about the loops of BigNum.mul, checked under SpecMul.         *)
(***************************************************************************)
\* C17: at every point of the loops of BigNum.mul the running sum of the
\* lane is within 0..0xFFFF, every tmp = a * b + sum is within
\* 0..0xFFFF0000 (so tmp & 0xffff and tmp >>> 16 are its two halves), and
\* the carry stays below Number.MAX_SAFE_INTEGER: the guard does not throw.
C17_MulLoopBounds ==
    op = "BigNum.mul"
        => /\ probe.sum \in 0..65535
           /\ probe.tmp.lo \in 0..65535
           /\ probe.tmp.hi \in 0..65535
           /\ probe.tmp.hi = 65535 => probe.tmp.lo = 0
           /\ probe.carry >= 0
           /\ ~AtLeastMaxSafeInteger(probe.carry)
           /\ err = "none"
           /\ probe.pc # "thrown"

\* C17 witness: tmp has been 0xFFFF0000, its largest value (two lanes ffff
\* multiplied onto a sum of ffff), while a carry above 16 bits was held.
C17_Witness ==
    /\ op = "BigNum.mul"
    /\ probe.pc = "pair"
    /\ probe.tmp = [lo |-> 0, hi |-> 65535]
    /\ probe.carry > 65535

\* The steps arrive at what mul returns.
MulStepsReturnMul ==
    (op = "BigNum.mul" /\ probe.pc = "done")
        => LET r == mul(WrapBuffer(bufferA), WrapBuffer(bufferB))
           IN  /\ r.error = "none"
               /\ ret.buffer = r.buffer
               /\ ret.negative = r.negative
               /\ probe.carry = r.carry

(***************************************************************************)
(* The claim about the loop of divmod, checked under SpecDivmod.           *)
(***************************************************************************)
\* C20: in the long-division loop of divmod, for a denominator that is not
\* zero: at the head of the loop, so at the end of every iteration,
\* value(remainder) < value(denominator); every leftShiftI of the remainder
\* returns carry 0; the subI of the loop does not throw; and the quotient
\* and the remainder keep len(numerator) and len(denominator) + 1 bytes.
C20_DivmodLoopInvariants ==
    (op = "divmod" /\ ~IsZero(bufferB))
        => /\ err = "none"
           /\ probe.pc # "thrown"
           /\ probe.carry = 0
           /\ probe.pc \in {"shift", "compare", "done"}
                 => /\ Len(probe.quotient) = Len(bufferA)
                    /\ Len(probe.remainder) = Len(bufferB) + 1
           /\ probe.pc \in {"shift", "done"}
                 => ValueLess(probe.remainder, bufferB)

\* C20 witness: an iteration has ended in which the denominator, of more
\* than one byte, was taken off a remainder whose top bit of the
\* denominator's width was set.
C20_Witness ==
    /\ op = "divmod"
    /\ probe.pc = "shift"
    /\ probe.index > 0
    /\ Len(bufferB) > 1
    /\ bufferB[1] = 255
    /\ ~IsZero(probe.quotient)
    /\ ~IsZero(probe.remainder)
    /\ probe.remainder[2] >= 128

\* The steps arrive at what divmod returns.
DivmodStepsReturnDivmod ==
    (op = "divmod" /\ probe.pc \in {"thrown", "returned", "done"})
        => LET r == divmod(bufferA, bufferB)
           IN  /\ err = r.error
               /\ err = "none" => ret.div = r.div /\ ret.mod = r.mod

====
